---- MODULE Spec2Model ----
(***************************************************************************)
(* The savefile package: save_file (savefile/saver.py), the older          *)
(* save_file kept under build/lib, list_files and delete_file, acting on   *)
(* one base directory.                                                     *)
(*                                                                         *)
(* Strings are sequences of tokens.  A token is a run of characters that   *)
(* holds no dot ("x", "csv", "CSV", " "), or the dot itself ("."), so      *)
(* 'x.CSV' is <<"x", ".", "CSV">> and string concatenation is \o.  File    *)
(* names are flat: they hold no path separator.  The one directory of the  *)
(* model is the base_dir the calls are given, written DEFAULT_DIR; it may  *)
(* be missing, empty, or hold sub-directories when the first call is made. *)
(***************************************************************************)
EXTENDS Naturals, Sequences, FiniteSets, TLC

VARIABLES
    installed,    \* which saver.py the process imported: "savefile" or "build/lib"
    dir_exists,   \* os.path.exists(base_dir)
    files,        \* the entries of base_dir: entry name -> what is stored
    last,         \* the call that ran last: arguments, outcome, what it did
    artifacts,    \* names of the Saved Artifacts successful saves have left
    log           \* the calls made so far, oldest first

vars == <<installed, dir_exists, files, last, artifacts, log>>

\* ------------------------------------------------------------------ bounds

\* calls made in one run
MaxOps == 2

\* ----------------------------------------------------------------- strings

DEFAULT_DIR == <<"/root/.cache/.local/.trash/">>

Join(dir, name) == dir \o name

Basename(path) == SubSeq(path, Len(DEFAULT_DIR) + 1, Len(path))

Dot == "."

Ext(word) == <<Dot, word>>

\* str.lower(), on the tokens of the model's alphabet
LowerTok(t) ==
    CASE t = "CSV" -> "csv"
      [] t = "TXT" -> "txt"
      [] t = "PNG" -> "png"
      [] t = "X"   -> "x"
      [] OTHER     -> t

Lower(s) == [i \in 1..Len(s) |-> LowerTok(s[i])]

IsSpace(t) == t = " "

RECURSIVE LStrip(_)
LStrip(s) ==
    IF s # <<>> /\ IsSpace(Head(s)) THEN LStrip(Tail(s)) ELSE s

RECURSIVE RStrip(_)
RStrip(s) ==
    IF s # <<>> /\ IsSpace(s[Len(s)]) THEN RStrip(SubSeq(s, 1, Len(s) - 1)) ELSE s

Strip(s) == LStrip(RStrip(s))

\* os.path.splitext on a flat name: the extension starts at the last dot,
\* unless only dots come before it
SplitExt(p) ==
    LET dots     == {i \in 1..Len(p) : p[i] = Dot}
        dotIndex == IF dots = {} THEN 0 ELSE CHOOSE i \in dots : \A j \in dots : j <= i
    IN  IF dotIndex > 0 /\ \E k \in 1..(dotIndex - 1) : p[k] # Dot
        THEN <<SubSeq(p, 1, dotIndex - 1), SubSeq(p, dotIndex, Len(p))>>
        ELSE <<p, <<>>>>

\* file_ext = file_ext.lower().strip()
NormalizeExt(ext) == Strip(Lower(ext))

\* -------------------------------------------------------------- filesystem

NoName == <<>>

Directory == [fmt |-> "dir", of |-> "", type |-> "", val |-> 0, entry |-> NoName]

\* what an encoder leaves in a file: the format and the value written
Encoded(fmt, variable) ==
    [fmt |-> fmt, of |-> "", type |-> variable.type, val |-> variable.val, entry |-> NoName]

\* a single-entry zip archive wrapping the file `name` holding `c`
Archive(name, c) ==
    [fmt |-> "zip", of |-> c.fmt, type |-> c.type, val |-> c.val, entry |-> name]

Exists(fs, name) == name \in DOMAIN fs

IsDir(fs, name) == Exists(fs, name) /\ fs[name].fmt = "dir"

IsFile(fs, name) == Exists(fs, name) /\ fs[name].fmt # "dir"

Put(fs, name, c) == [n \in DOMAIN fs \cup {name} |-> IF n = name THEN c ELSE fs[n]]

Remove(fs, name) == [n \in DOMAIN fs \ {name} |-> fs[n]]

\* EnsureDir, were it to make base_dir afresh on every call
EnsureDirAfresh(exists, fs) == [exists |-> TRUE, files |-> <<>>]

\* if not os.path.exists(base_dir): os.makedirs(base_dir)
\* base_dir and its entries afterwards: a directory just made is empty, an
\* existing one is left as it is
EnsureDir(exists, fs) ==
    IF ~exists THEN [exists |-> TRUE, files |-> <<>>]
    ELSE [exists |-> exists, files |-> fs]

\* open(path, "w") and write: refused when the directory is missing or the
\* path names a directory; else the file is created or overwritten
WriteFile(dir, fs, name, c) ==
    IF ~dir \/ IsDir(fs, name)
    THEN [ok |-> FALSE, files |-> fs]
    ELSE [ok |-> TRUE, files |-> Put(fs, name, c)]

\* ------------------------------------------------------------- save_file

Types == {"DataFrame", "ndarray", "list", "dict", "str", "bytes", "Figure", "int"}

valid_extensions ==
    {Ext("png"), Ext("jpg"), Ext("jpeg"), Ext("pdf"), Ext("svg"), Ext("tif"), Ext("tiff")}

Pick(fmt, ext) == [err |-> "", fmt |-> fmt, ext |-> ext]

Refuse(err) == [err |-> err, fmt |-> "", ext |-> <<>>]

\* file_ext.replace('.', '')
RemoveDots(ext) == SelectSeq(ext, LAMBDA t : t # Dot)

\* Dispatch, were it to skip the extension checks and pickle whatever it is given
DispatchUnchecked(type, file_ext) ==
    IF type = "int" THEN Refuse("UnsupportedType") ELSE Pick("pickle.dump", file_ext)

\* the isinstance chain of save_file: the format written and the extension
\* appended to file_path_no_ext, or the ValueError raised
Dispatch(type, file_ext) ==
    IF type = "DataFrame" THEN
        IF file_ext = Ext("csv") THEN Pick("csv", Ext("csv"))
        ELSE IF file_ext \in {Ext("pkl"), Ext("pickle")} THEN Pick("to_pickle", file_ext)
        ELSE Refuse("IncompatibleFormat")
    ELSE IF type = "ndarray" THEN
        IF file_ext = Ext("npy") THEN Pick("npy", Ext("npy"))
        ELSE Refuse("IncompatibleFormat")
    ELSE IF type \in {"list", "dict"} THEN
        IF file_ext = Ext("json") THEN Pick("json", Ext("json"))
        ELSE Refuse("IncompatibleFormat")
    ELSE IF type = "str" THEN
        IF file_ext = Ext("txt") THEN Pick("text", Ext("txt"))
        ELSE Refuse("IncompatibleFormat")
    ELSE IF type = "bytes" THEN
        IF file_ext \in {Ext("pkl"), Ext("pickle")} THEN Pick("pickle.dump", file_ext)
        ELSE Refuse("IncompatibleFormat")
    ELSE IF type = "Figure" THEN
        IF file_ext \in valid_extensions THEN Pick(RemoveDots(file_ext)[1], file_ext)
        ELSE Refuse("IncompatibleFormat")
    ELSE Refuse("UnsupportedType")

\* FilePathNoExt, were it to keep the whole name (as the build/lib save_file does)
FilePathWithExt(file_name) == Join(DEFAULT_DIR, file_name)

\* file_path_no_ext = os.path.join(base_dir, file_base)
FilePathNoExt(file_name) == Join(DEFAULT_DIR, SplitExt(file_name)[1])

\* FileExt, were it to fall back to .txt when the name has no extension
FileExtOrTxt(file_name) ==
    IF SplitExt(file_name)[2] = <<>> THEN Ext("txt")
    ELSE NormalizeExt(SplitExt(file_name)[2])

\* file_ext as save_file reads it from the name
FileExt(file_name) == NormalizeExt(SplitExt(file_name)[2])

ZipSuffix == <<Dot, "zip">>

\* ZipFile, were it to remove the original before it makes the archive
ZipFileRemoveFirst(fs, saved_path) ==
    LET name     == Basename(saved_path)
        zip_name == name \o (<<Dot, "zip">>)
    IN  IF IsDir(fs, zip_name)
        THEN [ok |-> FALSE, files |-> Remove(fs, name), removed |-> TRUE]
        ELSE [ok |-> TRUE,
              files |-> Remove(Put(fs, zip_name, Archive(name, fs[name])), name),
              removed |-> TRUE]

\* ZipFile, were it to leave the original beside the archive
ZipFileKeepOriginal(fs, saved_path) ==
    LET name     == Basename(saved_path)
        zip_name == name \o (<<Dot, "zip">>)
    IN  IF IsDir(fs, zip_name)
        THEN [ok |-> FALSE, files |-> fs, removed |-> FALSE]
        ELSE [ok |-> TRUE,
              files |-> Put(fs, zip_name, Archive(name, fs[name])),
              removed |-> FALSE]

\* shutil.make_archive(saved_path, 'zip', base_dir, basename) and then
\* os.remove(saved_path): make_archive raises when saved_path + ".zip" cannot
\* be opened for writing, and then nothing is removed
ZipFile(fs, saved_path) ==
    LET name     == Basename(saved_path)
        zip_name == name \o ZipSuffix
    IN  IF IsDir(fs, zip_name)
        THEN [ok |-> FALSE, files |-> fs, removed |-> FALSE]
        ELSE [ok |-> TRUE,
              files |-> Remove(Put(fs, zip_name, Archive(name, fs[name])), name),
              removed |-> TRUE]

SavedMessage(saved_path) == <<"File successfully saved at: ">> \o saved_path

ZippedMessage(zip_path) == <<"File successfully zipped at: ">> \o zip_path

NoCall ==
    [op |-> "none", type |-> "", name |-> NoName, zip |-> FALSE, outcome |-> "",
     saved |-> NoName, ret |-> <<>>, closed |-> FALSE, removed |-> FALSE,
     dir_at_encode |-> FALSE, encoded |-> FALSE, img_format |-> ""]

Entry(op, ok, artifact) == [op |-> op, ok |-> ok, artifact |-> artifact]

\* the steps of one save call after the dispatch `d` chose the target
\* `saved_path`: the encoder's write, plt.close for a figure once savefig has
\* returned, then the optional zip
SaveSteps(variable, zip_file, d, saved_path) ==
    LET base == EnsureDir(dir_exists, files)
        dir  == base.exists
        name == Basename(saved_path)
        w    == IF d.err = "" THEN WriteFile(dir, base.files, name, Encoded(d.fmt, variable))
                ELSE [ok |-> FALSE, files |-> base.files]
        z    == IF w.ok /\ zip_file THEN ZipFile(w.files, saved_path)
                ELSE [ok |-> w.ok, files |-> w.files, removed |-> FALSE]
    IN  [dir     |-> dir,
         files   |-> z.files,
         wrote   |-> w.ok,
         closed  |-> variable.type = "Figure" /\ w.ok,
         removed |-> z.removed,
         ok      |-> d.err = "" /\ w.ok /\ z.ok,
         outcome |-> IF d.err # "" THEN d.err
                     ELSE IF w.ok /\ z.ok THEN "ok" ELSE "OSError",
         saved   |-> IF d.err = "" THEN saved_path ELSE NoName,
         left    |-> IF zip_file THEN name \o ZipSuffix ELSE name]

\* one save call: its steps, and what it returns
RunSave(variable, file_name, zip_file, img_format, d, saved_path, zip_ret, plain_ret) ==
    /\ \E r \in {SaveSteps(variable, zip_file, d, saved_path)} :
        /\ dir_exists' = r.dir
        /\ files' = r.files
        /\ last' = [op |-> "save_file", type |-> variable.type, name |-> file_name,
                    zip |-> zip_file, outcome |-> r.outcome, saved |-> r.saved,
                    ret |-> IF ~r.ok THEN <<>>
                            ELSE IF zip_file THEN zip_ret ELSE plain_ret,
                    closed |-> r.closed, removed |-> r.removed,
                    dir_at_encode |-> r.dir, encoded |-> r.saved # NoName,
                    img_format |-> img_format]
        /\ artifacts' = IF r.ok THEN (artifacts \ {Basename(r.saved)}) \cup {r.left}
                        ELSE IF r.wrote THEN artifacts \ {Basename(r.saved)}
                        ELSE artifacts
        /\ log' = Append(log, Entry("save_file", r.ok, IF r.ok THEN r.left ELSE NoName))
    /\ UNCHANGED installed

\* the values callers pass: one of each type (a list for list/dict), and a
\* second string
Objects ==
    {[type |-> t, val |-> 1] : t \in Types \ {"dict"}} \cup {[type |-> "str", val |-> 2]}

\* the names callers pass
FileNames ==
    { <<"x">>,
      <<"x", Dot, "csv">>, <<"x", Dot, "CSV">>, <<"x", Dot, "pkl">>,
      <<"x", Dot, "pickle">>, <<"x", Dot, "csv", Dot, "zip">>,
      <<"x", Dot, "npy">>, <<"x", Dot, "json">>,
      <<"x", Dot, "txt">>, <<"x", Dot, "txt", " ">>,
      <<"x", Dot, "png">> }

\* save_file(variable, file_name, base_dir=DEFAULT_DIR, zip_file) of savefile/saver.py
SaveFile(variable, file_name, zip_file) ==
    LET d          == Dispatch(variable.type, FileExt(file_name))
        saved_path == FilePathNoExt(file_name) \o d.ext
    IN  RunSave(variable, file_name, zip_file, "", d, saved_path,
                   ZippedMessage(saved_path \o ZipSuffix), SavedMessage(saved_path))

\* ------------------------------------------- save_file of build/lib

\* the isinstance chain of the older save_file: the extension follows from the
\* type alone (from img_format for a figure)
LegacyDispatch(type, img_format) ==
    IF type = "DataFrame" THEN Pick("csv", Ext("csv"))
    ELSE IF type = "ndarray" THEN Pick("npy", Ext("npy"))
    ELSE IF type \in {"list", "dict"} THEN Pick("json", Ext("json"))
    ELSE IF type = "str" THEN Pick("text", Ext("txt"))
    ELSE IF type = "bytes" THEN Pick("pickle.dump", Ext("pkl"))
    ELSE IF type = "Figure" THEN Pick(img_format, Ext(img_format))
    ELSE Refuse("UnsupportedType")

LegacySavedMessage(saved_path) == <<"File is successfully saved at: ">> \o saved_path

ImgFormats == {"png", "pdf"}

LegacyFileNames == { <<"x">>, <<"x", Dot, "csv">> }

\* save_file(variable_name, file_name, base_dir, zip_file, img_format) of build/lib
LegacySaveFile(variable_name, file_name, zip_file, img_format) ==
    LET d          == LegacyDispatch(variable_name.type, img_format)
        file_path  == Join(DEFAULT_DIR, file_name)
        saved_path == file_path \o d.ext
    IN  RunSave(variable_name, file_name, zip_file, img_format, d,
                saved_path, saved_path \o ZipSuffix, LegacySavedMessage(saved_path))

\* ------------------------------------------------------------- list_files

\* the orders os.listdir may enumerate `names` in
Orders(names) ==
    {s \in [1..Cardinality(names) -> names] : \A i, j \in DOMAIN s : s[i] = s[j] => i = j}

\* FilesOnly, were it to keep every entry os.listdir gives
AllEntries(fs, all_entries) == all_entries

\* files_only = [f for f in all_entries if os.path.isfile(os.path.join(base_dir, f))]
FilesOnly(fs, all_entries) == SelectSeq(all_entries, LAMBDA f : IsFile(fs, f))

\* list_files(base_dir=DEFAULT_DIR)
ListFiles(all_entries) ==
    /\ last' = [NoCall EXCEPT !.op = "list_files", !.outcome = "ok",
                              !.ret = IF ~dir_exists THEN <<>>
                                      ELSE FilesOnly(files, all_entries)]
    /\ log' = Append(log, Entry("list_files", TRUE, NoName))
    /\ UNCHANGED <<installed, dir_exists, files, artifacts>>

\* ------------------------------------------------------------ delete_file

DeletedMessage(file_name) ==
    <<"File '">> \o file_name \o <<"' has been deleted from '">> \o DEFAULT_DIR \o <<"'.">>

NotFoundMessage(file_name) ==
    <<"File '">> \o file_name \o <<"' does not exist in '">> \o DEFAULT_DIR \o <<"'.">>

\* DeleteFinds, were it to test os.path.exists alone
DeleteFindsAnyEntry(dir, fs, file_name) == dir /\ Exists(fs, file_name)

\* os.path.exists(target_path) and os.path.isfile(target_path)
DeleteFinds(dir, fs, file_name) == dir /\ Exists(fs, file_name) /\ IsFile(fs, file_name)

\* os.remove(path): raises for a missing path and for a directory
OsRemove(fs, name) ==
    IF IsFile(fs, name) THEN [ok |-> TRUE, files |-> Remove(fs, name)]
    ELSE [ok |-> FALSE, files |-> fs]

\* delete_file(file_name, base_dir=DEFAULT_DIR)
DeleteFile(file_name) ==
    LET found == DeleteFinds(dir_exists, files, file_name)
        r     == IF found THEN OsRemove(files, file_name)
                 ELSE [ok |-> TRUE, files |-> files]
    IN  /\ files' = r.files
        /\ last' = [NoCall EXCEPT !.op = "delete_file", !.name = file_name,
                                  !.outcome = IF r.ok THEN "ok" ELSE "OSError",
                                  !.removed = found /\ r.ok,
                                  !.ret = IF ~r.ok THEN <<>>
                                          ELSE IF found THEN DeletedMessage(file_name)
                                          ELSE NotFoundMessage(file_name)]
        /\ artifacts' = artifacts \ {n \in {file_name} : n \notin DOMAIN r.files}
        /\ log' = Append(log, Entry("delete_file", r.ok, NoName))
        /\ UNCHANGED <<installed, dir_exists>>

\* ------------------------------------------------------------ the system

\* the directories base_dir may hold before the first call
SubDirs == { <<"x", Dot, "png">>, <<"x", Dot, "csv", Dot, "zip">> }

Init ==
    /\ installed \in {"savefile", "build/lib"}
    /\ dir_exists \in BOOLEAN
    /\ files \in {[n \in ds |-> Directory] : ds \in {{}, SubDirs}}
    /\ (~dir_exists => files = <<>>)
    /\ last = NoCall
    /\ artifacts = {}
    /\ log = <<>>

\* a run makes at most MaxOps calls
CanCall == Len(log) < MaxOps

Save ==
    /\ CanCall
    /\ installed = "savefile"
    /\ \E variable \in Objects, file_name \in FileNames, zip_file \in BOOLEAN :
          SaveFile(variable, file_name, zip_file)

LegacySave ==
    /\ CanCall
    /\ installed = "build/lib"
    /\ \E variable_name \in Objects, file_name \in LegacyFileNames, zip_file \in BOOLEAN,
          img_format \in ImgFormats :
          /\ (variable_name.type # "Figure" => img_format = "png")
          /\ LegacySaveFile(variable_name, file_name, zip_file, img_format)

List ==
    /\ CanCall
    /\ installed = "savefile"
    /\ \E all_entries \in Orders(DOMAIN files) : ListFiles(all_entries)

Delete ==
    /\ CanCall
    /\ installed = "savefile"
    /\ \E file_name \in FileNames \cup DOMAIN files : DeleteFile(file_name)

Next == Save \/ LegacySave \/ List \/ Delete

Spec == Init /\ [][Next]_vars

\* ----------------------------------------------------------- properties

\* the spec's kinds, by the Python type save_file tests for
Kind(type) ==
    CASE type = "DataFrame"         -> "Table"
      [] type = "ndarray"           -> "NumericArray"
      [] type \in {"list", "dict"}  -> "JSONValue"
      [] type = "str"               -> "Text"
      [] type = "bytes"             -> "BinaryBlob"
      [] type = "Figure"            -> "Figure"
      [] OTHER                      -> "none"

SixKinds == {"Table", "NumericArray", "JSONValue", "Text", "BinaryBlob", "Figure"}

\* each kind's accepted extensions
Accepted(kind) ==
    CASE kind = "Table"        -> {Ext("csv"), Ext("pkl"), Ext("pickle")}
      [] kind = "NumericArray" -> {Ext("npy")}
      [] kind = "JSONValue"    -> {Ext("json")}
      [] kind = "Text"         -> {Ext("txt")}
      [] kind = "BinaryBlob"   -> {Ext("pkl"), Ext("pickle")}
      [] kind = "Figure"       -> {Ext("png"), Ext("jpg"), Ext("jpeg"), Ext("pdf"),
                                   Ext("svg"), Ext("tif"), Ext("tiff")}
      [] OTHER                 -> {}

\* each kind's default extension (a figure has none)
DefaultExt(kind) ==
    CASE kind = "Table"        -> Ext("csv")
      [] kind = "NumericArray" -> Ext("npy")
      [] kind = "JSONValue"    -> Ext("json")
      [] kind = "Text"         -> Ext("txt")
      [] kind = "BinaryBlob"   -> Ext("pkl")
      [] OTHER                 -> <<>>

\* the regular files of base_dir, with what they hold
RegularFiles(fs) == {n \in DOMAIN fs : fs[n].fmt # "dir"}

FileSet(fs) == [n \in RegularFiles(fs) |-> fs[n]]

\* the split of the name a call was given
BaseOf(call) == SplitExt(call.name)[1]

ExtOf(call) == SplitExt(call.name)[2]

\* the artifact a successful save leaves: the archive when zipping, else the file
ArtifactPath(call) == IF call.zip THEN call.saved \o ZipSuffix ELSE call.saved

\* C1 as claimed: a save_file call of savefile/saver.py whose name carries an
\* extension that is not, as written, in the kind's accepted set fails with
\* IncompatibleFormat and leaves the files of base_dir and their contents as
\* they were.
C1_AsClaimed ==
    [][ ( /\ installed = "savefile"
          /\ last'.op = "save_file"
          /\ Kind(last'.type) \in SixKinds
          /\ ExtOf(last') # <<>>
          /\ ExtOf(last') \notin Accepted(Kind(last'.type)) )
        => ( /\ last'.outcome = "IncompatibleFormat"
             /\ FileSet(files') = FileSet(files) ) ]_vars

\* C1, amended: a save_file call of savefile/saver.py whose name carries an
\* extension that, once lower-cased and stripped of surrounding whitespace, is
\* outside the kind's accepted set fails with IncompatibleFormat and leaves the
\* files of base_dir and their contents as they were, with or without zip_file.
C1_IncompatibleWritesNothing ==
    [][ ( /\ installed = "savefile"
          /\ last'.op = "save_file"
          /\ Kind(last'.type) \in SixKinds
          /\ ExtOf(last') # <<>>
          /\ Strip(Lower(ExtOf(last'))) \notin Accepted(Kind(last'.type)) )
        => ( /\ last'.outcome = "IncompatibleFormat"
             /\ FileSet(files') = FileSet(files) ) ]_vars

\* a zipping save of a wrong extension was refused while base_dir held a file
C1_Witness ==
    /\ installed = "savefile"
    /\ last.op = "save_file"
    /\ last.zip
    /\ Kind(last.type) \in SixKinds
    /\ ExtOf(last) # <<>>
    /\ Strip(Lower(ExtOf(last))) \notin Accepted(Kind(last.type))
    /\ last.outcome = "IncompatibleFormat"
    /\ RegularFiles(files) # {}

FiveKinds == SixKinds \ {"Figure"}

C3_ArchiveThenRemove ==
    last.op = "save_file" =>
        LET F == Basename(last.saved)
            Z == F \o ZipSuffix
        IN  /\ (last.zip /\ last.outcome = "ok") =>
                  /\ IsFile(files, Z)
                  /\ files[Z].fmt = "zip"
                  /\ files[Z].entry = F
                  /\ files[Z].type = last.type
                  /\ ~Exists(files, F)
            /\ last.removed =>
                  /\ IsFile(files, Z)
                  /\ files[Z].fmt = "zip"
                  /\ files[Z].entry = F

\* a zipping save succeeded
C3_Witness ==
    /\ last.op = "save_file"
    /\ last.zip
    /\ last.outcome = "ok"
    /\ last.removed

\* C4 as claimed: a successful save returns exactly the path of the artifact
\* it left, a file that exists after the call.
C4_AsClaimed ==
    (last.op = "save_file" /\ last.outcome = "ok") =>
        /\ last.ret = ArtifactPath(last)
        /\ IsFile(files, Basename(last.ret))

\* C5 as claimed: no save and no list_files call changes or removes a Saved
\* Artifact.
C5_AsClaimed ==
    [][ \A P \in artifacts :
          last'.op \in {"save_file", "list_files"}
          => (Exists(files', P) /\ files'[P] = files[P]) ]_vars

\* the paths a save call writes: its encoded file and, when zipping, the archive
Targets(call) ==
    IF call.saved = NoName THEN {}
    ELSE {Basename(call.saved)}
         \cup (IF call.zip THEN {Basename(call.saved) \o ZipSuffix} ELSE {})

\* C5, amended: list_files never changes or removes a Saved Artifact, and a
\* save changes or removes one only when it is that save's own encoded file or,
\* when zipping, its own archive path; delete_file removes the artifact it is
\* given the name of and no other.
C5_OnlyOwnTargets ==
    [][ \A P \in artifacts :
          /\ ( /\ last'.op \in {"save_file", "list_files"}
               /\ P \notin Targets(last') )
             => (Exists(files', P) /\ files'[P] = files[P])
          /\ last'.op = "delete_file"
             => IF P = last'.name THEN ~Exists(files', P)
                ELSE Exists(files', P) /\ files'[P] = files[P] ]_vars

\* an artifact stands beside the file a later successful save wrote
C5_Witness ==
    /\ last.op = "save_file"
    /\ last.outcome = "ok"
    /\ \E P \in artifacts : P \notin Targets(last) /\ IsFile(files, P)

\* C6: delete_file never raises; it removes base_dir/name and reports success
\* exactly when that is a regular file, and otherwise reports not-found and
\* changes nothing.
C6_Delete ==
    [][ last'.op = "delete_file" =>
          /\ last'.outcome = "ok"
          /\ dir_exists' = dir_exists
          /\ IF dir_exists /\ last'.name \in RegularFiles(files)
             THEN /\ DOMAIN files' = DOMAIN files \ {last'.name}
                  /\ \A n \in DOMAIN files' : files'[n] = files[n]
                  /\ last'.ret = DeletedMessage(last'.name)
             ELSE /\ files' = files
                  /\ last'.ret = NotFoundMessage(last'.name) ]_vars

\* delete_file removed a file
C6_Witness ==
    /\ last.op = "delete_file"
    /\ last.removed
    /\ last.ret = DeletedMessage(last.name)

Range(s) == {s[i] : i \in DOMAIN s}

\* C7: list_files returns the names of the regular files of base_dir, each
\* once and no subdirectory; the empty sequence when base_dir does not exist;
\* and it changes nothing.
C7_List ==
    [][ last'.op = "list_files" =>
          /\ last'.outcome = "ok"
          /\ Range(last'.ret) = RegularFiles(files)
          /\ Len(last'.ret) = Cardinality(RegularFiles(files))
          /\ (~dir_exists => last'.ret = <<>>)
          /\ files' = files
          /\ dir_exists' = dir_exists ]_vars

\* list_files ran on a directory holding a file and a subdirectory
C7_Witness ==
    /\ last.op = "list_files"
    /\ Len(last.ret) = 1
    /\ \E n \in DOMAIN files : IsDir(files, n)

\* base_dir held nothing when the run began: these operations never make or
\* remove a subdirectory, and the run's calls are all in the log
SavesIn(l) == {i \in DOMAIN l : l[i].op = "save_file"}

OneSaveThenList ==
    /\ \A n \in DOMAIN files : ~IsDir(files, n)
    /\ Cardinality(SavesIn(log)) = 1
    /\ \A i \in DOMAIN log : log[i].op \in {"save_file", "list_files"}
    /\ \A i \in SavesIn(log) : log[i].ok
    /\ last.op = "list_files"

\* C8: from an empty base_dir, after exactly one save call, a successful one,
\* list_files returns exactly one name: the name of the artifact that save left.
C8_OneName ==
    OneSaveThenList =>
        \A i \in SavesIn(log) :
            /\ last.ret = <<log[i].artifact>>
            /\ IsFile(files, log[i].artifact)

\* list_files ran after a single, zipping save into an empty base_dir
C8_Witness ==
    /\ OneSaveThenList
    /\ \E i \in SavesIn(log) :
          /\ Len(log[i].artifact) > 2
          /\ SubSeq(log[i].artifact, Len(log[i].artifact) - 1, Len(log[i].artifact)) = ZipSuffix

\* C9 as claimed: a successful save_file of savefile/saver.py had base_dir in
\* place when it encoded, and wrote base_dir/name, the name as passed,
\* character for character.
C9_AsClaimed ==
    (installed = "savefile" /\ last.op = "save_file" /\ last.outcome = "ok") =>
        /\ last.dir_at_encode
        /\ last.saved = Join(DEFAULT_DIR, BaseOf(last) \o ExtOf(last))

\* C9, amended: a successful save_file of savefile/saver.py had base_dir in
\* place when it encoded, and wrote base_dir/base_name.extension with the
\* extension lower-cased and stripped of surrounding whitespace; without
\* zip_file that file is in base_dir afterwards.
C9_NormalisedTarget ==
    (installed = "savefile" /\ last.op = "save_file" /\ last.outcome = "ok") =>
        /\ last.dir_at_encode
        /\ dir_exists
        /\ last.saved = Join(DEFAULT_DIR, BaseOf(last) \o Strip(Lower(ExtOf(last))))
        /\ ~last.zip => IsFile(files, BaseOf(last) \o Strip(Lower(ExtOf(last))))

\* a save succeeded under a name whose extension was not already normalised
C9_Witness ==
    /\ installed = "savefile"
    /\ last.op = "save_file"
    /\ last.outcome = "ok"
    /\ Strip(Lower(ExtOf(last))) # ExtOf(last)

\* C10 as claimed: every save call given a figure has released it (plt.close)
\* by the time it returns or fails.
C10_AsClaimed ==
    (last.op = "save_file" /\ last.type = "Figure") => last.closed

====
